---- MODULE Spec2Model ----
(***************************************************************************)
(* BillMap: the batch metadata aggregator (scripts/billdata.py) and the    *)
(* bill detail view's data shaping (server_py/flatgov/bills/views.py).     *)
(*                                                                         *)
(* A Python str is a sequence of one-character strings; a dict is a        *)
(* function (a record) whose DOMAIN is its key set, so d.get(k) is a test  *)
(* of k \in DOMAIN d.  A call that can raise returns a record whose kind   *)
(* is "ok" or the name of the exception.                                   *)
(***************************************************************************)
EXTENDS Integers, Sequences, FiniteSets, TLC

VARIABLES
    \* ---- metadata aggregator (billdata.py:152-177)
    corpus,         \* the data.json files the walk finds, in os.walk order (segments)
    billsMeta,      \* the in-memory BillsMeta dict
    disk,           \* [json, gz]: contents of ../billsMeta.json and ../billsMeta.json.gz
    pos,            \* index of the next file of the walk
    pc,             \* "idle" | "walking" | "done" | "aborted"
    saveCalls,      \* calls of saveBillsMeta made in this run
    runKind,        \* "first" | "sameProcess" | "newProcess"
    prevResult,     \* BillsMeta as the previous run of updateBillsMeta left it
    \* ---- bill-key normalizers (billdata.py:80-87, views.py:56-65)
    norm,           \* [pc, bill_id, script, view]: one bill_id and what
                    \* getBillCongressTypeNumber and billIdToBillNumber return for it
    \* ---- directory walker (billdata.py:36-58)
    walker,         \* [pc, segs, dirName, fileList, calls]: one directory os.walk
                    \* yields, and the processFile calls walkBillDirs makes for it
    \* ---- identity resolver (views.py:352-379)
    resolver,       \* [pc, similar, identical_bill_numbers, result]: the bill's
                    \* similarity matches, the view instance's attribute, the return
    \* ---- cosponsor roster merger (views.py:382-421)
    roster,         \* [pc, identical_bill_numbers, rows, result]: the instance's
                    \* identical set, the Cosponsor-bill rows of the database, the return
    \* ---- cosponsor display ordering (views.py:277-350)
    ordering,       \* [pc, cosponsors_dict, sponsor, db, result]: the bill's cosponsors
                    \* and sponsor, the Cosponsor table's answers, the return
    \* ---- title extraction (billdata.py:107-125)
    extractor,      \* [pc, fileDict, include_partial, billType, result]: one call of
                    \* getBillTitles and what it returns
    \* ---- renders of the detail view (views.py:120-176)
    render          \* [cls, views]: the class attribute identical_bill_numbers of
                    \* BillDetailView, and per view instance its bill, its position in
                    \* get_context_data, its instance attributes and what was read

aggVars == <<corpus, billsMeta, disk, pos, pc, saveCalls, runKind, prevResult>>
vars == <<aggVars, norm, walker, resolver, roster, ordering, extractor, render>>
notAgg == <<norm, walker, resolver, roster, ordering, extractor, render>>

(***************************************************************************)
(* Bounds of the model                                                     *)
(***************************************************************************)
MaxIdLen == 5       \* longest bill_id enumerated for the normalizers
MaxSmallFiles == 3  \* most files of an exhaustively enumerated corpus
MaxExtra == 1       \* distinct bills of a large corpus beyond SAVE_ON_COUNT
MaxDepth == 4       \* most path segments of a directory below the root
MaxMatches == 2     \* most similarity matches of the bill
MaxIdentical == 2   \* most bills of the identical set handed to the roster merger
MaxRows == 3        \* most Cosponsor-bill rows of the database
MaxCosponsors == 3  \* most cosponsors of the bill on display
MaxTitles == 2      \* most titles of a record handed to getBillTitles

(***************************************************************************)
(* Strings                                                                 *)
(***************************************************************************)
LowerLetters ==
    {"a", "b", "c", "d", "e", "f", "g", "h", "i", "j", "k", "l", "m",
     "n", "o", "p", "q", "r", "s", "t", "u", "v", "w", "x", "y", "z"}
DigitSeq == <<"0", "1", "2", "3", "4", "5", "6", "7", "8", "9">>
DigitChars == {DigitSeq[i] : i \in 1..10}

RECURSIVE ToDigits(_)
\* str(n) for a natural number n
ToDigits(n) ==
    IF n < 10 THEN <<DigitSeq[n + 1]>>
    ELSE ToDigits(n \div 10) \o <<DigitSeq[(n % 10) + 1]>>

\* str.split(sep) for a one-character sep: the parts between the separators,
\* always at least one part
Split(s, sep) ==
    LET at == {i \in 1..Len(s) : s[i] = sep}
        \* the position of the j-th separator; 0 before the first part and
        \* Len(s) + 1 after the last
        edge(j) == IF j = 0 THEN 0
                   ELSE IF j > Cardinality(at) THEN Len(s) + 1
                   ELSE CHOOSE i \in at : Cardinality({x \in at : x < i}) = j - 1
    IN  [j \in 1..(Cardinality(at) + 1) |-> SubSeq(s, edge(j - 1) + 1, edge(j) - 1)]

RECURSIVE Join(_)
\* ''.join(parts)
Join(parts) ==
    IF parts = <<>> THEN <<>> ELSE Head(parts) \o Join(Tail(parts))

\* reversed(seq)
Reversed(seq) == [i \in 1..Len(seq) |-> seq[Len(seq) + 1 - i]]

RECURSIVE SeqsUpTo(_, _)
\* every sequence over S of length at most n
SeqsUpTo(S, n) ==
    IF n = 0 THEN {<<>>}
    ELSE LET shorter == SeqsUpTo(S, n - 1)
         IN  shorter \cup {Append(s, c) : s \in {t \in shorter : Len(t) = n - 1}, c \in S}

(***************************************************************************)
(* The shape of a bill_id, stated apart from the code                      *)
(***************************************************************************)
\* index of the first sep in s, 0 when there is none
FirstIndex(s, sep) ==
    IF \E i \in 1..Len(s) : s[i] = sep
    THEN CHOOSE i \in 1..Len(s) : s[i] = sep /\ \A j \in 1..(i - 1) : s[j] # sep
    ELSE 0

\* s is <type><number>: one or more lower-case letters, then one or more digits
IsTypeNumber(s) ==
    \E k \in 1..(Len(s) - 1) :
        /\ \A i \in 1..k : s[i] \in LowerLetters
        /\ \A i \in (k + 1)..Len(s) : s[i] \in DigitChars

IsDigits(s) == Len(s) >= 1 /\ \A i \in 1..Len(s) : s[i] \in DigitChars

\* s is <type><number>-<congress>
IsValidBillId(s) ==
    LET h == FirstIndex(s, "-")
    IN  /\ h > 0
        /\ IsTypeNumber(SubSeq(s, 1, h - 1))
        /\ IsDigits(SubSeq(s, h + 1, Len(s)))

\* <congress><type><number> of a valid bill_id
ExpectedBillKey(s) ==
    LET h == FirstIndex(s, "-")
    IN  SubSeq(s, h + 1, Len(s)) \o SubSeq(s, 1, h - 1)

(***************************************************************************)
(* Bill-key normalizers                                                    *)
(***************************************************************************)
\* the script's normalizer, with parts[0] and parts[1] in the other order
getBillCongressTypeNumberSwapped(fileDict) ==
    IF "bill_id" \in DOMAIN fileDict /\ fileDict.bill_id # <<>>
    THEN LET bill_id_parts == Split(fileDict.bill_id, "-")
         IN  IF Len(bill_id_parts) < 2
             THEN [kind |-> "IndexError"]
             ELSE [kind |-> "ok", value |-> bill_id_parts[1] \o bill_id_parts[2]]
    ELSE [kind |-> "None"]

\* billdata.py:80-87.  bill_id_parts[1] of a one-part split raises IndexError;
\* a missing or empty bill_id is logged and None is returned.
getBillCongressTypeNumber(fileDict) ==
    IF "bill_id" \in DOMAIN fileDict /\ fileDict.bill_id # <<>>
    THEN LET bill_id_parts == Split(fileDict.bill_id, "-")
         IN  IF Len(bill_id_parts) < 2
             THEN [kind |-> "IndexError"]
             ELSE [kind |-> "ok", value |-> bill_id_parts[2] \o bill_id_parts[1]]
    ELSE [kind |-> "None"]

\* views.py:56-65
billIdToBillNumber(id) == Join(Reversed(Split(id, "-")))

(***************************************************************************)
(* Metadata aggregator                                                     *)
(***************************************************************************)
\* billdata.py:11
SAVE_ON_COUNT == 1000

\* billdata.py:13-16
BILL_TYPES == [ih |-> "introduced", rh |-> "reported to house"]

\* title.get('is_for_portion') is truthy
IsForPortion(title) == "is_for_portion" \in DOMAIN title /\ title.is_for_portion

\* the titles filtered by stage alone, include_partial ignored
getBillTitlesKeepingPartial(fileDict, include_partial, billType) ==
    IF billType # "all" /\ billType \in DOMAIN BILL_TYPES
    THEN SelectSeq(fileDict.titles,
                   LAMBDA t : "as" \in DOMAIN t /\ t.as = BILL_TYPES[billType])
    ELSE fileDict.titles

\* billdata.py:107-125
getBillTitles(fileDict, include_partial, billType) ==
    LET titles == fileDict.titles
        whole == IF ~include_partial
                 THEN SelectSeq(titles, LAMBDA t : ~IsForPortion(t))
                 ELSE titles
    IN  IF billType # "all" /\ billType \in DOMAIN BILL_TYPES
        THEN SelectSeq(whole, LAMBDA t : "as" \in DOMAIN t /\ t.as = BILL_TYPES[billType])
        ELSE whole

\* cosponsor.get(field): None for a field the cosponsor lacks
FieldOrNone(d, field) == IF field \in DOMAIN d THEN d[field] ELSE "None"

\* billdata.py:89-105
getCosponsors(fileDict, includeFields) ==
    IF includeFields # {}
    THEN [i \in 1..Len(fileDict.cosponsors) |->
            [field \in includeFields |-> FieldOrNone(fileDict.cosponsors[i], field)]]
    ELSE fileDict.cosponsors

\* the three fields addToBillsMeta computes from one data.json
FreshFields(billDict) ==
    LET titles == getBillTitles(billDict, TRUE, "all")
    IN  [titles |-> [i \in 1..Len(titles) |-> titles[i].title],
         titles_whole_bill |->
            LET whole == SelectSeq(titles, LAMBDA t : ~IsForPortion(t))
            IN  [i \in 1..Len(whole) |-> whole[i].title],
         cosponsors |-> getCosponsors(billDict, {"name", "bioguide_id"})]

\* an additive merge: the new values appended to the entry's previous ones
UpdatedEntryMerging(meta, key, billDict) ==
    LET fresh == FreshFields(billDict)
    IN  IF key \in DOMAIN meta
        THEN [f \in DOMAIN meta[key] \cup DOMAIN fresh |->
                IF f \in DOMAIN fresh
                THEN (IF f \in DOMAIN meta[key] THEN meta[key][f] ELSE <<>>) \o fresh[f]
                ELSE meta[key][f]]
        ELSE fresh

\* billdata.py:165-170: the entry of key after this file; an existing entry
\* keeps its dict, whose three fields are assigned
UpdatedEntry(meta, key, billDict) ==
    LET fresh == FreshFields(billDict)
        old == IF key \in DOMAIN meta /\ DOMAIN meta[key] # {} THEN meta[key] ELSE <<>>
    IN  [f \in DOMAIN old \cup DOMAIN fresh |->
            IF f \in DOMAIN fresh THEN fresh[f] ELSE old[f]]

\* the checkpoint test taken one entry late
ShouldCheckpointLate(meta) == Cardinality(DOMAIN meta) % SAVE_ON_COUNT = 1

\* billdata.py:171-172
ShouldCheckpoint(meta) == Cardinality(DOMAIN meta) % SAVE_ON_COUNT = 0

\* billdata.py:152-157: both files are overwritten with the full mapping
saveBillsMeta(meta) == [json |-> meta, gz |-> meta]

\* ---- corpora --------------------------------------------------------------
\* A corpus is a sequence of segments; a segment stands for `count` consecutive
\* data.json files of bills first, first+1, ..., all of one form and content.
FileForms == {"ok", "missing", "empty", "nohyphen"}

Content(ver) ==
    IF ver = 1
    THEN [titles |-> << [title |-> "An Act", is_for_portion |-> FALSE, as |-> "introduced"],
                        [title |-> "Title II", is_for_portion |-> TRUE, as |-> "introduced"] >>,
          cosponsors |-> << [name |-> "Doe, Jane", bioguide_id |-> "D000001",
                             state |-> "CA"] >>]
    ELSE [titles |-> << [title |-> "An Act, amended", is_for_portion |-> FALSE,
                         as |-> "reported to house"] >>,
          cosponsors |-> <<>>]

\* the data.json of bill hr<number> of congress 116
BillFile(form, number, ver) ==
    LET body == Content(ver)
        typeNumber == <<"h", "r">> \o ToDigits(number)
        congress == <<"1", "1", "6">>
    IN  CASE form = "ok" ->
                 [bill_id |-> typeNumber \o <<"-">> \o congress] @@ body
          [] form = "nohyphen" ->
                 [bill_id |-> typeNumber \o congress] @@ body
          [] form = "empty" ->
                 [bill_id |-> <<>>] @@ body
          [] OTHER -> body

RECURSIVE SegLen(_)
SegLen(c) == IF c = <<>> THEN 0 ELSE Head(c).count + SegLen(Tail(c))

RECURSIVE FileAt(_, _)
\* the i-th file of corpus c, 1 <= i <= SegLen(c)
FileAt(c, i) ==
    IF i <= Head(c).count
    THEN BillFile(Head(c).form, Head(c).first + i - 1, Head(c).ver)
    ELSE FileAt(Tail(c), i - Head(c).count)

Seg(form, first, count, ver) ==
    [form |-> form, first |-> first, count |-> count, ver |-> ver]

\* one file: a well-formed one of bill 1 or 2 in either content, or a malformed one
OneFileSegs ==
    {Seg("ok", n, 1, v) : n \in 1..2, v \in 1..2}
        \cup {Seg(f, 1, 1, 1) : f \in FileForms \ {"ok"}}

SmallCorpora == SeqsUpTo(OneFileSegs, MaxSmallFiles)

\* n distinct bills, then the first r of them once more with content ver
LargeCorpus(n, r, ver) ==
    <<Seg("ok", 1, n, 1)>> \o (IF r = 0 THEN <<>> ELSE <<Seg("ok", 1, r, ver)>>)

LargeCorpora ==
    {LargeCorpus(SAVE_ON_COUNT - 1, 1, 2),
     LargeCorpus(SAVE_ON_COUNT, 1, 2)}
        \cup {LargeCorpus(SAVE_ON_COUNT + e, SAVE_ON_COUNT, 2) : e \in 1..MaxExtra}

Corpora == SmallCorpora \cup LargeCorpora

\* ---- the run ---------------------------------------------------------------
EmptyDict == <<>>

\* ---- the parts of the model a specification leaves alone ------------------
AggOff ==
    /\ corpus = <<>>
    /\ billsMeta = EmptyDict
    /\ disk = [json |-> EmptyDict, gz |-> EmptyDict]
    /\ pos = 1
    /\ pc = "off"
    /\ saveCalls = 0
    /\ runKind = "first"
    /\ prevResult = EmptyDict

NormOff ==
    norm = [pc |-> "off", bill_id |-> <<>>, script |-> [kind |-> "pending"], view |-> <<>>]

WalkerOff ==
    walker = [pc |-> "off", segs |-> <<>>, dirName |-> <<>>, fileList |-> <<>>,
              calls |-> <<>>]

ResolverOff ==
    resolver = [pc |-> "off", similar |-> <<>>, identical_bill_numbers |-> <<>>,
                result |-> [kind |-> "pending"]]

RosterOff ==
    roster = [pc |-> "off", identical_bill_numbers |-> <<>>, rows |-> <<>>, result |-> <<>>]

OrderingOff ==
    ordering = [pc |-> "off", cosponsors_dict |-> <<>>, sponsor |-> <<>>, db |-> <<>>,
                result |-> <<>>]

ExtractorOff ==
    extractor = [pc |-> "off", fileDict |-> <<>>, include_partial |-> TRUE,
                 billType |-> "all", result |-> <<>>]

RenderOff == render = [cls |-> <<>>, views |-> <<>>]

InitAgg ==
    /\ NormOff
    /\ ExtractorOff
    /\ RenderOff
    /\ WalkerOff
    /\ ResolverOff
    /\ RosterOff
    /\ OrderingOff
    /\ corpus \in Corpora
    /\ billsMeta = EmptyDict
    /\ disk = [json |-> EmptyDict, gz |-> EmptyDict]   \* no snapshot written yet
    /\ pos = 1
    /\ pc = "idle"
    /\ saveCalls = 0
    /\ runKind = "first"
    /\ prevResult = EmptyDict

\* billdata.py:159, 175: updateBillsMeta() enters the walk
StartWalk ==
    /\ pc = "idle"
    /\ pc' = "walking"
    /\ UNCHANGED <<corpus, billsMeta, disk, pos, saveCalls, runKind, prevResult>>
    /\ UNCHANGED notAgg

\* billdata.py:160-173: addToBillsMeta on the next file of the walk
AddToBillsMeta ==
    /\ pc = "walking"
    /\ pos <= SegLen(corpus)
    /\ LET billDict == FileAt(corpus, pos)
           billCongressTypeNumber == getBillCongressTypeNumber(billDict)
       IN  CASE billCongressTypeNumber.kind = "IndexError" ->
                    \* nothing catches it: it leaves the walk and updateBillsMeta
                    /\ pc' = "aborted"
                    /\ UNCHANGED <<billsMeta, disk, pos, saveCalls>>
             [] billCongressTypeNumber.kind = "None"
                  \/ (billCongressTypeNumber.kind = "ok"
                        /\ billCongressTypeNumber.value = <<>>) ->
                    /\ pos' = pos + 1
                    /\ UNCHANGED <<billsMeta, disk, pc, saveCalls>>
             [] OTHER ->
                    LET key == billCongressTypeNumber.value
                        meta == (key :> UpdatedEntry(billsMeta, key, billDict)) @@ billsMeta
                    IN  /\ billsMeta' = meta
                        /\ IF ShouldCheckpoint(meta)
                           THEN disk' = saveBillsMeta(meta) /\ saveCalls' = saveCalls + 1
                           ELSE UNCHANGED <<disk, saveCalls>>
                        /\ pos' = pos + 1
                        /\ pc' = pc
    /\ UNCHANGED <<corpus, runKind, prevResult>>
    /\ UNCHANGED notAgg

\* the return without the final save
FinishWalkUnsaved ==
    /\ pc = "walking"
    /\ pos > SegLen(corpus)
    /\ pc' = "done"
    /\ UNCHANGED <<corpus, billsMeta, disk, saveCalls, pos, runKind, prevResult>>
    /\ UNCHANGED notAgg

\* billdata.py:176-177: the walk is over; the final save, and the return
FinishWalk ==
    /\ pc = "walking"
    /\ pos > SegLen(corpus)
    /\ disk' = saveBillsMeta(billsMeta)
    /\ saveCalls' = saveCalls + 1
    /\ pc' = "done"
    /\ UNCHANGED <<corpus, billsMeta, pos, runKind, prevResult>>
    /\ UNCHANGED notAgg

\* updateBillsMeta called again in the same process over the same corpus: the
\* billsMeta= {} default (billdata.py:159) is the dict the first call filled
RerunSameProcess ==
    /\ pc = "done"
    /\ prevResult' = billsMeta
    /\ runKind' = "sameProcess"
    /\ pos' = 1
    /\ saveCalls' = 0
    /\ pc' = "walking"
    /\ UNCHANGED <<corpus, billsMeta, disk>>
    /\ UNCHANGED notAgg

\* the script run again: main (billdata.py:189) starts from an empty dict,
\* the files of the earlier run still on disk
RerunNewProcess ==
    /\ pc \in {"done", "aborted"}
    /\ prevResult' = billsMeta
    /\ runKind' = "newProcess"
    /\ billsMeta' = EmptyDict
    /\ pos' = 1
    /\ saveCalls' = 0
    /\ pc' = "walking"
    /\ UNCHANGED <<corpus, disk>>
    /\ UNCHANGED notAgg

NextAgg ==
    \/ StartWalk
    \/ AddToBillsMeta
    \/ FinishWalk
    \/ RerunSameProcess
    \/ RerunNewProcess

SpecAgg == InitAgg /\ [][NextAgg]_vars

(***************************************************************************)
(* C1 - C4: the aggregator                                                 *)
(***************************************************************************)
\* the next file of the walk
NextFile == FileAt(corpus, pos)

\* the file yields a non-empty key
HasKey(billDict) ==
    LET r == getBillCongressTypeNumber(billDict)
    IN  r.kind = "ok" /\ r.value # <<>>

\* saveBillsMeta was called in this step, and wrote what is now in memory
Checkpointed ==
    /\ saveCalls' = saveCalls + 1
    /\ disk' = [json |-> billsMeta', gz |-> billsMeta']

\* the step added a key to BillsMeta
KeyInserted == DOMAIN billsMeta' # DOMAIN billsMeta

\* C1 as stated: processing a file checkpoints if and only if the file
\* inserted a new key and the key count is then a multiple of 1000.
C1_CheckpointOnlyOnInsert ==
    [][AddToBillsMeta =>
        (Checkpointed <=>
            (KeyInserted /\ Cardinality(DOMAIN billsMeta') % 1000 = 0))]_vars

\* C1 amended: processing a file checkpoints if and only if the file has a
\* resolvable key, inserted or overwritten, and the key count of BillsMeta is
\* then a multiple of 1000; otherwise neither the files nor the call count change.
C1_CheckpointOnMultiple ==
    [][AddToBillsMeta =>
        /\ Checkpointed <=>
              (HasKey(NextFile) /\ Cardinality(DOMAIN billsMeta') % 1000 = 0)
        /\ Checkpointed \/ (saveCalls' = saveCalls /\ disk' = disk)]_vars

\* the 1000th key was checkpointed, and so was the overwrite that followed it
C1_Witness ==
    /\ pc = "walking"
    /\ runKind = "first"
    /\ pos = 1002
    /\ Cardinality(DOMAIN billsMeta) = 1000
    /\ saveCalls = 2
    /\ disk.json = billsMeta

\* the file has no bill_id, an empty one, or one not of the form
\* <type><number>-<congress>
Malformed(billDict) ==
    \/ "bill_id" \notin DOMAIN billDict
    \/ billDict.bill_id = <<>>
    \/ ~IsValidBillId(billDict.bill_id)

\* C2: a file with a malformed or missing bill_id is skipped: BillsMeta and
\* its entry count are unchanged, nothing is checkpointed, nothing aborts the
\* walk, which goes on to the next file.
C2_MalformedSkipped ==
    [][(AddToBillsMeta /\ Malformed(NextFile)) =>
        /\ billsMeta' = billsMeta
        /\ disk' = disk
        /\ saveCalls' = saveCalls
        /\ pc' = "walking"
        /\ pos' = pos + 1]_vars

\* the entries of BillsMeta a crash would lose: absent from the snapshot on
\* disk, or different in it
Unsaved ==
    {k \in DOMAIN billsMeta : k \notin DOMAIN disk.json \/ disk.json[k] # billsMeta[k]}

\* C3: during the walk at most 999 entries differ from the persisted snapshot.
C3_LossBound ==
    pc = "walking" => Cardinality(Unsaved) <= 999

\* C4: a second run over the unchanged corpus that starts from the first
\* run's BillsMeta adds and removes no key, and ends with a BillsMeta equal to
\* the first run's: entries are overwritten, not merged.
C4_RerunIdempotent ==
    runKind = "sameProcess" =>
        /\ DOMAIN billsMeta = DOMAIN prevResult
        /\ pc = "done" => billsMeta = prevResult

\* a second run has ended over a corpus that has a bill with titles and cosponsors
C4_Witness ==
    /\ runKind = "sameProcess"
    /\ pc = "done"
    /\ \E k \in DOMAIN billsMeta :
          /\ Len(billsMeta[k].titles) = 2
          /\ Len(billsMeta[k].titles_whole_bill) = 1
          /\ Len(billsMeta[k].cosponsors) = 1

(***************************************************************************)
(* C12                                                                     *)
(***************************************************************************)
\* the keys of the files of the corpus that yield one
ResolvableKeys ==
    {getBillCongressTypeNumber(FileAt(corpus, i)).value :
        i \in {j \in 1..SegLen(corpus) : HasKey(FileAt(corpus, j))}}

\* C12: when updateBillsMeta has returned, both files on disk hold the
\* in-memory BillsMeta, which has an entry for every file with a resolvable
\* key, however many entries that is; and no step of the walk removes a key
\* from BillsMeta.
C12_FinalCheckpoint ==
    /\ [](pc = "done" =>
            /\ disk = [json |-> billsMeta, gz |-> billsMeta]
            /\ ResolvableKeys \subseteq DOMAIN billsMeta)
    /\ [][pc = "walking" => DOMAIN billsMeta \subseteq DOMAIN billsMeta']_vars

\* a first run over two bills has returned: two entries, never checkpointed
\* inside the walk, are on disk
C12_Witness ==
    /\ pc = "done"
    /\ runKind = "first"
    /\ saveCalls = 1
    /\ Cardinality(DOMAIN billsMeta) = 2
    /\ disk.json = billsMeta
    /\ disk.gz = billsMeta

(***************************************************************************)
(* Directory walker                                                        *)
(***************************************************************************)
\* re.match(r'[a-z]+[0-9]+', s) is not None: a match at the start of s,
\* whatever follows it
MatchesTypeNumber(s) ==
    \E k \in 1..(Len(s) - 1) :
        /\ \A i \in 1..k : s[i] \in LowerLetters
        /\ s[k + 1] \in DigitChars

BillsSegment == <<"b", "i", "l", "l", "s">>

\* the matcher with the 'bills' segment looked for directly above the leaf
getTopBillLevelParent(dirName) ==
    LET dirName_parts == Split(dirName, "/")
        n == Len(dirName_parts)
    IN  IF ~MatchesTypeNumber(dirName_parts[n]) THEN [kind |-> "ok", value |-> FALSE]
        ELSE IF n < 2 THEN [kind |-> "IndexError"]
        ELSE [kind |-> "ok", value |-> dirName_parts[n - 1] = BillsSegment]

\* billdata.py:36-47.  `and` evaluates dirName_parts[-3] only when the leaf
\* matches; a path of fewer than three parts then raises IndexError.
getTopBillLevel(dirName) ==
    LET dirName_parts == Split(dirName, "/")
        n == Len(dirName_parts)
    IN  IF ~MatchesTypeNumber(dirName_parts[n]) THEN [kind |-> "ok", value |-> FALSE]
        ELSE IF n < 3 THEN [kind |-> "IndexError"]
        ELSE [kind |-> "ok", value |-> dirName_parts[n - 2] = BillsSegment]

\* billdata.py:49-50
isDataJson(fileName) == fileName = "data.json"

RECURSIVE JoinPath(_)
\* os.path.join: the segments with '/' between them
JoinPath(segs) ==
    IF Len(segs) = 1 THEN segs[1]
    ELSE segs[1] \o <<"/">> \o JoinPath(Tail(segs))

\* billdata.py:52: rootDir = '../congress/data'
RootSegs == << <<".", ".">>, <<"c", "o", "n", "g", "r", "e", "s", "s">>, <<"d", "a", "t", "a">> >>

\* names a directory below the root may have
SegmentNames ==
    { <<"1", "1", "6">>,
      BillsSegment,
      <<"h", "r">>,
      <<"h", "r", "1">>,
      <<"h", "r", "1", ".", "b", "a", "k">>,
      <<"t", "e", "x", "t", "-", "v", "e", "r", "s", "i", "o", "n", "s">> }

FileLists ==
    { <<>>, <<"data.json">>, <<"fdsys_billstatus.xml">>,
      <<"data.json", "fdsys_billstatus.xml">> }

InitWalk ==
    /\ AggOff
    /\ ExtractorOff
    /\ RenderOff
    /\ NormOff
    /\ ResolverOff
    /\ RosterOff
    /\ OrderingOff
    /\ walker \in {[pc |-> "yielded", segs |-> rel, dirName |-> JoinPath(RootSegs \o rel),
                    fileList |-> fl, calls |-> <<>>] :
                      rel \in SeqsUpTo(SegmentNames, MaxDepth), fl \in FileLists}

\* billdata.py:53-58: the body of the os.walk loop for one directory
WalkDirectory ==
    /\ walker.pc = "yielded"
    /\ LET m == getTopBillLevel(walker.dirName)
       IN  CASE m.kind = "IndexError" ->
                    walker' = [walker EXCEPT !.pc = "IndexError"]
             [] m.kind = "ok" /\ m.value ->
                    LET filteredFileList == SelectSeq(walker.fileList, isDataJson)
                    IN  walker' = [walker EXCEPT
                                      !.pc = "entered",
                                      !.calls = [i \in 1..Len(filteredFileList) |->
                                                    [dirName |-> walker.dirName,
                                                     fileName |-> filteredFileList[i]]]]
             [] OTHER ->
                    walker' = [walker EXCEPT !.pc = "passed"]
    /\ UNCHANGED <<aggVars, norm, resolver, roster, ordering, extractor, render>>

NextWalk == WalkDirectory

SpecWalk == InitWalk /\ [][NextWalk]_vars

(***************************************************************************)
(* C5                                                                      *)
(***************************************************************************)
\* <type><number>: lower-case letters, then digits, and nothing else
IsTypeNumberName(seg) == IsTypeNumber(seg)

\* the name starts as <type><number> does: letters, then a digit
StartsAsTypeNumber(seg) ==
    /\ Len(seg) >= 2
    /\ seg[1] \in LowerLetters
    /\ \E d \in 2..Len(seg) :
          /\ seg[d] \in DigitChars
          /\ \A i \in 1..(d - 1) : seg[i] \in LowerLetters

\* the directory is <root>/<congress>/bills/<type><number>
ShapeBillsAbove(rel) ==
    /\ Len(rel) = 3
    /\ IsDigits(rel[1])
    /\ rel[2] = BillsSegment
    /\ IsTypeNumberName(rel[3])

\* the processFile calls made for the data.json files of the directory, in order
DataJsonCalls(w) ==
    LET idx == {i \in 1..Len(w.fileList) : w.fileList[i] = "data.json"}
    IN  IF idx = {} THEN <<>>
        ELSE << [dirName |-> w.dirName, fileName |-> "data.json"] >>

\* C5 as stated: a directory is entered exactly when it is
\* <root>/<congress>/bills/<type><number>, and processFile is called only for
\* the data.json of such a directory.
C5_AcceptsBillsAbove ==
    walker.pc \notin {"off", "yielded"} =>
        /\ walker.pc = "entered" <=> ShapeBillsAbove(walker.segs)
        /\ walker.calls # <<>> => ShapeBillsAbove(walker.segs)

\* C5 amended: a directory is entered exactly when its last segment starts
\* with lower-case letters followed by a digit and the segment two above it is
\* 'bills' (<root>/<congress>/bills/<type>/<type><number>, as the docstring
\* has it); '.../bills/hr1' below a congress directory and
\* '.../bills/hr/hr1/text-versions' are passed over; processFile is called
\* once for the data.json of an entered directory and for nothing else.
C5_AcceptsBillsTwoAbove ==
    walker.pc \notin {"off", "yielded"} =>
        LET rel == walker.segs
            all == RootSegs \o rel
            n == Len(all)
            shape == StartsAsTypeNumber(all[n]) /\ all[n - 2] = BillsSegment
        IN  /\ walker.pc = "entered" <=> shape
            /\ walker.pc = "passed" <=> ~shape
            /\ walker.calls = IF shape THEN DataJsonCalls(walker) ELSE <<>>
            /\ (n >= 2 /\ all[n - 1] = BillsSegment /\ all[n - 2] # BillsSegment)
                  => walker.pc = "passed"
            /\ all[n] = <<"t", "e", "x", "t", "-", "v", "e", "r", "s", "i", "o", "n", "s">>
                  => walker.pc = "passed"

\* '../congress/data/116/bills/hr/hr1' was entered and its data.json processed
C5_Witness ==
    /\ walker.pc = "entered"
    /\ walker.segs = << <<"1", "1", "6">>, BillsSegment, <<"h", "r">>, <<"h", "r", "1">> >>
    /\ walker.fileList = <<"data.json", "fdsys_billstatus.xml">>
    /\ walker.calls = << [dirName |-> walker.dirName, fileName |-> "data.json"] >>

(***************************************************************************)
(* Identity resolver                                                       *)
(*                                                                         *)
(* Scores are in hundredths (90 is 0.90) and are compared exactly; a       *)
(* match's reason is held as the list reason.split(", ") yields.           *)
(***************************************************************************)
\* views.py:49: SIMILARITY_THRESHOLD = .1, as the fraction 1 / ThresholdInverse
ThresholdInverse == 10

\* views.py:50
IDENTICAL_REASONS == <<"identical", "nearly identical", "title match (main)">>

\* self.object.bill_congress_type_number
OwnBill == "116hr299"

\* bills.models.cleanReasons: the distinct reasons of the list
cleanReasons(reasons) == {reasons[i] : i \in 1..Len(reasons)}

\* the bill keys of the model, in the order of the congress-aware comparator
BillOrder == <<"115hr7", "116hr299", "116hr300">>
BillRank(key) == CHOOSE i \in 1..Len(BillOrder) : BillOrder[i] = key

\* sorted(seq, key=key): stable, ascending
StableSort(seq, key(_)) ==
    LET n == Len(seq)
        k == [i \in 1..n |-> key(seq[i])]
        \* where the i-th element goes: after the smaller keys and the equal
        \* keys that come before it
        place == [i \in 1..n |->
                    1 + Cardinality({j \in 1..n : k[j] < k[i] \/ (k[j] = k[i] /\ j < i)})]
    IN  [p \in 1..n |-> seq[CHOOSE i \in 1..n : place[i] = p]]

\* bills.utils.sort_bills_for_congress: sorts the list it is given, in place
sort_bills_for_congress(bills) == StableSort(bills, BillRank)

\* views.py:352-354
get_billnumbers_similar(similar) ==
    [i \in 1..Len(similar) |->
        IF "bill_congress_type_number" \in DOMAIN similar[i]
        THEN similar[i].bill_congress_type_number ELSE ""]

\* views.py:356-366, for a view whose self.object.bill_congress_type_number is own
get_current_bill_score_for(own, similar) ==
    LET numbers == get_billnumbers_similar(similar)
    IN  IF \E i \in 1..Len(numbers) : numbers[i] = own
        THEN similar[CHOOSE i \in 1..Len(numbers) :
                        /\ numbers[i] = own
                        /\ \A j \in 1..(i - 1) : numbers[j] # own].score
        ELSE 0

\* views.py:356-366
get_current_bill_score(similar) == get_current_bill_score_for(OwnBill, similar)

\* a / b < 1 / ThresholdInverse for a >= 0; dividing by zero raises
RatioBelowThreshold(a, b) ==
    IF b = 0 THEN "ZeroDivisionError"
    ELSE IF b > 0 THEN (IF ThresholdInverse * a < b THEN "yes" ELSE "no")
    ELSE "yes"

Abs(x) == IF x < 0 THEN -x ELSE x

\* the test of the comprehension without its current_bill_score > 0 guard
IsIdenticalMatchUnguarded(bill, current_bill_score) ==
    IF \E i \in 1..Len(IDENTICAL_REASONS) : IDENTICAL_REASONS[i] \in cleanReasons(bill.reason)
    THEN "yes"
    ELSE RatioBelowThreshold(Abs(bill.score - current_bill_score), current_bill_score)

\* views.py:374-375: any(...) or (current_bill_score > 0 and abs(...) / ... < ...)
IsIdenticalMatch(bill, current_bill_score) ==
    IF \E i \in 1..Len(IDENTICAL_REASONS) : IDENTICAL_REASONS[i] \in cleanReasons(bill.reason)
    THEN "yes"
    ELSE IF ~(current_bill_score > 0) THEN "no"
    ELSE RatioBelowThreshold(Abs(bill.score - current_bill_score), current_bill_score)

\* views.py:369-379, for a view whose self.object.bill_congress_type_number is
\* own: the returned list, or the exception the comprehension raises
get_identical_bill_numbers_for(own, similar) ==
    LET current_bill_score == get_current_bill_score_for(own, similar)
        verdict == [i \in 1..Len(similar) |-> IsIdenticalMatch(similar[i], current_bill_score)]
        kept == SelectSeq([i \in 1..Len(similar) |-> i], LAMBDA i : verdict[i] = "yes")
        numbers == get_billnumbers_similar(similar)
        identical_bill_numbers ==
            SelectSeq([i \in 1..Len(kept) |-> numbers[kept[i]]], LAMBDA b : b # "")
    IN  IF \E i \in 1..Len(similar) : verdict[i] = "ZeroDivisionError"
        THEN [kind |-> "ZeroDivisionError"]
        ELSE [kind |-> "ok", value |-> sort_bills_for_congress(identical_bill_numbers)]

\* views.py:369-379
get_identical_bill_numbers(similar) == get_identical_bill_numbers_for(OwnBill, similar)

MatchKeys == {"", "116hr299", "116hr300", "115hr7"}
MatchScores == {0, 50, 90, 95}
\* bill.get('reason').split(", "): the reasons of a match, one per element
MatchReasons == { <<"identical">>, <<"similar text">>,
                  <<"similar text", "title match (main)">> }

Matches ==
    [bill_congress_type_number : MatchKeys, score : MatchScores, reason : MatchReasons]

InitResolve ==
    /\ AggOff
    /\ ExtractorOff
    /\ RenderOff
    /\ NormOff
    /\ WalkerOff
    /\ RosterOff
    /\ OrderingOff
    /\ resolver \in {[pc |-> "request", similar |-> sim, identical_bill_numbers |-> <<>>,
                      result |-> [kind |-> "pending"]] :
                        sim \in SeqsUpTo(Matches, MaxMatches)}

\* views.py:158: get_context_data calls get_identical_bill_numbers, which
\* stores the list on the instance and returns it
GetIdenticalBillNumbers ==
    /\ resolver.pc = "request"
    /\ LET r == get_identical_bill_numbers(resolver.similar)
       IN  resolver' = [resolver EXCEPT
                           !.pc = IF r.kind = "ok" THEN "returned" ELSE "raised",
                           !.identical_bill_numbers =
                                IF r.kind = "ok" THEN r.value ELSE @,
                           !.result = r]
    /\ UNCHANGED <<aggVars, norm, walker, roster, ordering, extractor, render>>

NextResolve == GetIdenticalBillNumbers

SpecResolve == InitResolve /\ [][NextResolve]_vars

(***************************************************************************)
(* C6                                                                      *)
(***************************************************************************)
\* the score of the bill in its own similarity list, 0 when it is not there
CurrentScoreOf(similar) ==
    LET own == {i \in 1..Len(similar) : similar[i].bill_congress_type_number = OwnBill}
    IN  IF own = {} THEN 0
        ELSE similar[CHOOSE i \in own : \A j \in own : i <= j].score

\* rule (a) or rule (b) of the claim
Qualifies(match, currentScore) ==
    \/ {"identical", "nearly identical", "title match (main)"}
            \cap {match.reason[i] : i \in 1..Len(match.reason)} # {}
    \/ /\ currentScore > 0
       /\ 10 * Abs(match.score - currentScore) < currentScore

\* how often x occurs in seq
Count(seq, x) == Cardinality({i \in 1..Len(seq) : seq[i] = x})

\* C6: the result holds exactly the non-empty keys of the matches that meet
\* rule (a) or rule (b), each as often as such a match has it; nothing is
\* raised, and with a current score of 0 only rule (a) admits a match.
C6_IdenticalSet ==
    resolver.pc \notin {"off", "request"} =>
        LET sim == resolver.similar
            cur == CurrentScoreOf(sim)
        IN  /\ resolver.pc = "returned"
            /\ resolver.result.kind = "ok"
            /\ \A k \in MatchKeys :
                  Count(resolver.result.value, k) =
                      IF k = "" THEN 0
                      ELSE Cardinality({i \in 1..Len(sim) :
                              /\ sim[i].bill_congress_type_number = k
                              /\ Qualifies(sim[i], cur)})
            /\ cur = 0 =>
                  \A i \in 1..Len(resolver.result.value) :
                      \E j \in 1..Len(sim) :
                          /\ sim[j].bill_congress_type_number = resolver.result.value[i]
                          /\ \E r \in 1..Len(sim[j].reason) :
                                sim[j].reason[r] \in
                                    {"identical", "nearly identical", "title match (main)"}

\* current score 0.90: a match at 0.95 is in by proximity, one at 0.50 with
\* reason 'similar text' is out
C6_Witness ==
    /\ resolver.pc = "returned"
    /\ resolver.similar =
          << [bill_congress_type_number |-> "116hr299", score |-> 90,
              reason |-> <<"similar text">>],
             [bill_congress_type_number |-> "116hr300", score |-> 95,
              reason |-> <<"similar text">>] >>
    /\ resolver.result.value = <<"116hr299", "116hr300">>

(***************************************************************************)
(* Cosponsor roster merger                                                 *)
(***************************************************************************)
\* self.object.committees_dict of the bill on display
CommitteesDict ==
    << [committee_id |-> "HSJU", committee |-> "House Judiciary"],
       [committee_id |-> "HSJU00", committee |-> "House Judiciary"],
       [committee_id |-> "HSIF", committee |-> ""],
       [committee_id |-> "SSFI", committee |-> "Senate Finance"] >>

RECURSIVE DedupeCommittees(_, _)
\* views.py:258-268: the loop, `seen` being the committee names kept so far
DedupeCommittees(items, seen) ==
    IF items = <<>> THEN <<>>
    ELSE LET k == Head(items).committee
         IN  IF k = "" \/ k \in seen THEN DedupeCommittees(Tail(items), seen)
             ELSE <<Head(items)>> \o DedupeCommittees(Tail(items), seen \cup {k})

\* views.py:254-268
get_committees_dict_deduped(committees_dict) ==
    IF committees_dict = <<>> THEN <<>> ELSE DedupeCommittees(committees_dict, {})

\* views.py:270-275: committee_id -> committee name
get_committees_map(committees_dict) ==
    LET deduped == get_committees_dict_deduped(committees_dict)
        ids == {deduped[i].committee_id : i \in 1..Len(deduped)}
    IN  [id \in ids |->
            deduped[CHOOSE i \in 1..Len(deduped) :
                        /\ deduped[i].committee_id = id
                        /\ \A j \in (i + 1)..Len(deduped) : deduped[j].committee_id # id].committee]

\* the Bill table: Bill.objects.get(bill_congress_type_number=key).id
BillKeys == {"116hr299", "116hr300", "115hr7"}
BillIdOf(key) == CASE key = "116hr299" -> 1 [] key = "116hr300" -> 2 [] key = "115hr7" -> 3

\* the committees column of a member's Cosponsor row
CommitteesOf(bioguide_id) ==
    IF bioguide_id = "A000001"
    THEN << [committee |-> "HSJU", rank |-> 3], [committee |-> "HSAG", rank |-> 1] >>
    ELSE <<>>

\* views.py:405-418: the entry made at the first row of a bioguide_id
FirstEntry(cosponsor, bctn, committees_map) ==
    LET committees_relevant ==
            SelectSeq(cosponsor.committees, LAMBDA c : c.committee \in DOMAIN committees_map)
    IN  [bioguide_id |-> cosponsor.bioguide_id,
         committees |-> cosponsor.committees,
         bill |-> cosponsor.bill,
         bill_congress_type_numbers |-> <<bctn>>,
         committees_named |->
            [i \in 1..Len(committees_relevant) |->
                committees_map[committees_relevant[i].committee]],
         ranks |-> [i \in 1..Len(committees_relevant) |-> committees_relevant[i].rank]]

\* position of bioguide_id among the entries of cosponsors_deduped, 0 if none
EntryOf(deduped, bioguide_id) ==
    IF \E i \in 1..Len(deduped) : deduped[i].bioguide_id = bioguide_id
    THEN CHOOSE i \in 1..Len(deduped) : deduped[i].bioguide_id = bioguide_id
    ELSE 0

\* the loop body with a later row of a bioguide_id replacing the entry's list
MergeRowReplacing(deduped, cosponsor, bctn, committees_map) ==
    LET at == EntryOf(deduped, cosponsor.bioguide_id)
    IN  IF at # 0
        THEN [deduped EXCEPT ![at].bill_congress_type_numbers = <<bctn>>]
        ELSE Append(deduped, FirstEntry(cosponsor, bctn, committees_map))

\* views.py:398-419: the loop body; cosponsors_deduped is a dict, held here as
\* its values in insertion order
MergeRow(deduped, cosponsor, bctn, committees_map) ==
    LET at == EntryOf(deduped, cosponsor.bioguide_id)
    IN  IF at # 0
        THEN [deduped EXCEPT ![at].bill_congress_type_numbers = Append(@, bctn)]
        ELSE Append(deduped, FirstEntry(cosponsor, bctn, committees_map))

RECURSIVE MergeRows(_, _, _, _)
MergeRows(deduped, fetched, bill_dict, committees_map) ==
    IF fetched = <<>> THEN deduped
    ELSE LET cosponsor == Head(fetched)
             bctn == IF cosponsor.bill \in DOMAIN bill_dict
                     THEN bill_dict[cosponsor.bill] ELSE ""
         IN  MergeRows(MergeRow(deduped, cosponsor, bctn, committees_map),
                       Tail(fetched), bill_dict, committees_map)

\* views.py:382-421
get_cosponsors_for_same_bills(identical_bill_numbers, rows) ==
    LET committees_map == get_committees_map(CommitteesDict)
        billnumbers ==
            IF \E i \in 1..Len(identical_bill_numbers) : identical_bill_numbers[i] = OwnBill
            THEN identical_bill_numbers
            ELSE <<OwnBill>> \o identical_bill_numbers
        billids == [i \in 1..Len(billnumbers) |-> BillIdOf(billnumbers[i])]
        bill_dict ==
            [id \in {billids[i] : i \in 1..Len(billids)} |->
                billnumbers[CHOOSE i \in 1..Len(billids) :
                                /\ billids[i] = id
                                /\ \A j \in (i + 1)..Len(billids) : billids[j] # id]]
        cosponsors_for_bills == SelectSeq(rows, LAMBDA r : r.bill \in DOMAIN bill_dict)
    IN  MergeRows(<<>>, cosponsors_for_bills, bill_dict, committees_map)

BioguideIds == {"A000001", "B000002"}

CosponsorRows ==
    {[bioguide_id |-> b, committees |-> CommitteesOf(b), bill |-> BillIdOf(k)] :
        b \in BioguideIds, k \in BillKeys}

InitRoster ==
    /\ AggOff
    /\ ExtractorOff
    /\ RenderOff
    /\ NormOff
    /\ WalkerOff
    /\ ResolverOff
    /\ OrderingOff
    /\ roster \in {[pc |-> "request", identical_bill_numbers |-> ident, rows |-> rows,
                    result |-> <<>>] :
                      ident \in SeqsUpTo(BillKeys, MaxIdentical),
                      rows \in SeqsUpTo(CosponsorRows, MaxRows)}

\* views.py:171: get_context_data calls get_cosponsors_for_same_bills
GetCosponsorsForSameBills ==
    /\ roster.pc = "request"
    /\ roster' = [roster EXCEPT
                     !.pc = "returned",
                     !.result = get_cosponsors_for_same_bills(roster.identical_bill_numbers,
                                                              roster.rows)]
    /\ UNCHANGED <<aggVars, norm, walker, resolver, ordering, extractor, render>>

NextRoster == GetCosponsorsForSameBills

SpecRoster == InitRoster /\ [][NextRoster]_vars

(***************************************************************************)
(* C7                                                                      *)
(***************************************************************************)
\* the key of the bill with this database id
KeyOfId(id) == CHOOSE k \in BillKeys : BillIdOf(k) = id

\* the rows fetched: those of the identical set's bills and of the bill itself
FetchedRows(r) ==
    LET billSet == {r.identical_bill_numbers[i] : i \in 1..Len(r.identical_bill_numbers)}
                      \cup {OwnBill}
    IN  SelectSeq(r.rows, LAMBDA row : KeyOfId(row.bill) \in billSet)

\* C7: one entry per distinct bioguide_id of the fetched rows, in the order of
\* first occurrence; an entry's bill_congress_type_numbers holds the key of the
\* bill of every fetched row of its bioguide_id, once per row, in fetch order.
C7_RosterMerged ==
    roster.pc = "returned" =>
        LET fetched == FetchedRows(roster)
            res == roster.result
            firstRow(b) == CHOOSE i \in 1..Len(fetched) :
                              /\ fetched[i].bioguide_id = b
                              /\ \A j \in 1..(i - 1) : fetched[j].bioguide_id # b
        IN  /\ {res[i].bioguide_id : i \in 1..Len(res)}
                   = {fetched[i].bioguide_id : i \in 1..Len(fetched)}
            /\ \A i, j \in 1..Len(res) :
                  i < j => /\ res[i].bioguide_id # res[j].bioguide_id
                           /\ firstRow(res[i].bioguide_id) < firstRow(res[j].bioguide_id)
            /\ \A i \in 1..Len(res) :
                  LET mine == SelectSeq(fetched,
                                  LAMBDA row : row.bioguide_id = res[i].bioguide_id)
                  IN  res[i].bill_congress_type_numbers
                          = [n \in 1..Len(mine) |-> KeyOfId(mine[n].bill)]

\* one member cosponsors the bill and an identical bill: one entry, two bills
C7_Witness ==
    /\ roster.pc = "returned"
    /\ roster.identical_bill_numbers = <<"116hr300">>
    /\ Len(roster.rows) = 3
    /\ Len(roster.result) = 1
    /\ roster.result[1].bioguide_id = "A000001"
    /\ roster.result[1].bill_congress_type_numbers = <<"116hr299", "116hr300">>
    /\ roster.result[1].committees_named = <<"House Judiciary">>

(***************************************************************************)
(* Cosponsor display ordering                                              *)
(*                                                                         *)
(* A rank is <<n>> for the int n and <<>> for None.                        *)
(***************************************************************************)
\* the names of the model in str order
NameOrder == <<"", "Adams", "Baker", "Clark">>
NameRank(name) == CHOOSE i \in 1..Len(NameOrder) : NameOrder[i] = name

\* seq[a-1:b]: a slice stops at the end of the list
Slice(seq, a, b) ==
    LET last == IF b < Len(seq) THEN b ELSE Len(seq)
    IN  IF a > last THEN <<>> ELSE SubSeq(seq, a, last)

\* d.get(field, default)
Get(d, field, default) == IF field \in DOMAIN d THEN d[field] ELSE default

\* type(cosponsor.get('rank')) == int
HasIntRank(cosponsor) == Get(cosponsor, "rank", <<>>) # <<>>
RankOf(cosponsor) == cosponsor.rank[1]

\* the sponsor put last instead of first
PlaceSponsorLast(cosponsors, sponsor) ==
    LET sponsor_name == Get(sponsor, "name", "")
        named == {i \in 1..Len(cosponsors) : Get(cosponsors[i], "name", "") = sponsor_name}
    IN  IF sponsor_name = "" THEN cosponsors
        ELSE IF named # {}
        THEN LET first == CHOOSE i \in named : \A j \in named : i <= j
             IN  SubSeq(cosponsors, 1, first - 1)
                    \o SubSeq(cosponsors, first + 1, Len(cosponsors))
                    \o <<cosponsors[first]>>
        ELSE Append(cosponsors, sponsor)

\* views.py:283-294: the cosponsor of the sponsor's name moved to the front,
\* or the sponsor inserted there; nothing for a sponsor without a name
PlaceSponsor(cosponsors, sponsor) ==
    LET sponsor_name == Get(sponsor, "name", "")
        named == {i \in 1..Len(cosponsors) : Get(cosponsors[i], "name", "") = sponsor_name}
    IN  IF sponsor_name = "" THEN cosponsors
        ELSE IF named # {}
        THEN LET first == CHOOSE i \in named : \A j \in named : i <= j
             IN  <<cosponsors[first]>>
                    \o SubSeq(cosponsors, 1, first - 1)
                    \o SubSeq(cosponsors, first + 1, Len(cosponsors))
        ELSE <<sponsor>> \o cosponsors

\* views.py:318-326: the last committee of the member that is one of the bill's
CommitteeFields(bioguide_id, cosponsor_item) ==
    LET hits == SelectSeq(cosponsor_item.committees,
                    LAMBDA c : /\ c.bioguide = bioguide_id
                               /\ \E i \in 1..Len(CommitteesDict) :
                                     CommitteesDict[i].committee_id = c.committee)
    IN  IF hits = <<>> THEN <<>>
        ELSE LET committee == hits[Len(hits)]
                 committee_dict ==
                    CommitteesDict[CHOOSE i \in 1..Len(CommitteesDict) :
                        /\ CommitteesDict[i].committee_id = committee.committee
                        /\ \A j \in (i + 1)..Len(CommitteesDict) :
                              CommitteesDict[j].committee_id # committee.committee]
             IN  [committee_id |-> committee.committee,
                  rank |-> committee.rank,
                  committee_name |-> committee_dict.committee]

\* the loop body leaving a cosponsor whose lookup fails as it was
EnrichUnmarked(cosponsor, db) ==
    LET bioguide_id == Get(cosponsor, "bioguide_id", "")
    IN  IF bioguide_id = "" \/ ~db[bioguide_id].found THEN cosponsor
        ELSE LET cosponsor_item == db[bioguide_id]
             IN  CommitteeFields(bioguide_id, cosponsor_item)
                    @@ [current |-> TRUE,
                        party |-> cosponsor_item.party,
                        name_full_official |-> cosponsor_item.name_full_official]
                    @@ cosponsor

\* views.py:302-326: the loop body for one cosponsor; db[bioguide_id] is what
\* Cosponsor.objects.get(bioguide_id=...) does
Enrich(cosponsor, db) ==
    LET bioguide_id == Get(cosponsor, "bioguide_id", "")
    IN  IF bioguide_id = "" THEN cosponsor
        ELSE IF ~db[bioguide_id].found
        THEN [current |-> FALSE] @@ cosponsor
        ELSE LET cosponsor_item == db[bioguide_id]
             IN  CommitteeFields(bioguide_id, cosponsor_item)
                    @@ [current |-> TRUE,
                        party |-> cosponsor_item.party,
                        name_full_official |-> cosponsor_item.name_full_official]
                    @@ cosponsor

\* the partitions with the ranked kept in name order
PartitionByOriginal(rest) ==
    SelectSeq(SelectSeq(rest, LAMBDA c : Get(c, "original_cosponsor", FALSE)), HasIntRank)
        \o SelectSeq(SelectSeq(rest, LAMBDA c : Get(c, "original_cosponsor", FALSE)),
                     LAMBDA c : ~HasIntRank(c))
        \o SelectSeq(SelectSeq(rest, LAMBDA c : ~Get(c, "original_cosponsor", FALSE)),
                     HasIntRank)
        \o SelectSeq(SelectSeq(rest, LAMBDA c : ~Get(c, "original_cosponsor", FALSE)),
                     LAMBDA c : ~HasIntRank(c))

\* views.py:328-350: cosponsors[1:] split by original_cosponsor and by the type
\* of rank, the ranked sorted by rank, and the four parts put together
PartitionAndSort(rest) ==
    LET original_cosponsors ==
            SelectSeq(rest, LAMBDA c : Get(c, "original_cosponsor", FALSE))
        unoriginal_cosponsors ==
            SelectSeq(rest, LAMBDA c : ~Get(c, "original_cosponsor", FALSE))
        sorted_original_ranked_cosponsors ==
            StableSort(SelectSeq(original_cosponsors, HasIntRank), RankOf)
        original_unranked_cosponsors ==
            SelectSeq(original_cosponsors, LAMBDA c : ~HasIntRank(c))
        sorted_unoriginal_ranked_cosponsors ==
            StableSort(SelectSeq(unoriginal_cosponsors, HasIntRank), RankOf)
        unoriginal_unranked_cosponsors ==
            SelectSeq(unoriginal_cosponsors, LAMBDA c : ~HasIntRank(c))
    IN  sorted_original_ranked_cosponsors \o original_unranked_cosponsors
            \o sorted_unoriginal_ranked_cosponsors \o unoriginal_unranked_cosponsors

\* views.py:277-350
get_cosponsors_dict(cosponsors_dict, sponsor0, db) ==
    LET sorted == StableSort(cosponsors_dict, LAMBDA c : NameRank(c.name))
        sponsor == [sponsor |-> TRUE] @@ sponsor0
        placed == PlaceSponsor(sorted, sponsor)
        cosponsors == [i \in 1..Len(placed) |-> Enrich(placed[i], db)]
    IN  Slice(cosponsors, 1, 1) \o PartitionAndSort(Slice(cosponsors, 2, Len(cosponsors)))

\* the bioguide_id of a member of the model
BioguideOf(name) ==
    CASE name = "Adams" -> "A000001"
      [] name = "Clark" -> "C000003"
      [] OTHER -> ""

Ranks == {<<>>, <<1>>, <<2>>}

CosponsorDicts ==
    {[name |-> n, bioguide_id |-> BioguideOf(n), original_cosponsor |-> o, rank |-> r] :
        n \in {"Adams", "Baker"}, o \in BOOLEAN, r \in Ranks}

Sponsors ==
    {[name |-> n, bioguide_id |-> BioguideOf(n)] : n \in {"", "Adams", "Clark"}}

\* Cosponsor.objects.get raises (DoesNotExist, MultipleObjectsReturned)
LookupFails == [found |-> FALSE]

\* a member without committees
MemberUnranked ==
    [found |-> TRUE, party |-> "D", name_full_official |-> "Member", committees |-> <<>>]

\* a member ranked 1 on a committee of the bill and 2 on another committee
MemberRanked(b) ==
    [found |-> TRUE, party |-> "R", name_full_official |-> "Member",
     committees |-> << [bioguide |-> b, committee |-> "HSAG", rank |-> <<2>>],
                       [bioguide |-> b, committee |-> "HSJU", rank |-> <<1>>] >>]

\* what Cosponsor.objects.get does for each bioguide_id: a table without the
\* members, one with the first of them alone, and one with both
CosponsorTables ==
    { [b \in {"A000001", "C000003"} |-> LookupFails],
      [b \in {"A000001", "C000003"} |->
          IF b = "A000001" THEN MemberRanked(b) ELSE LookupFails],
      [b \in {"A000001", "C000003"} |->
          IF b = "A000001" THEN MemberUnranked ELSE MemberRanked(b)] }

InitOrdering ==
    /\ AggOff
    /\ ExtractorOff
    /\ RenderOff
    /\ NormOff
    /\ WalkerOff
    /\ ResolverOff
    /\ RosterOff
    /\ ordering \in {[pc |-> "request", cosponsors_dict |-> cs, sponsor |-> sp, db |-> db,
                      result |-> <<>>] :
                        cs \in SeqsUpTo(CosponsorDicts, MaxCosponsors),
                        sp \in Sponsors, db \in CosponsorTables}

\* views.py:159: get_context_data calls get_cosponsors_dict
GetCosponsorsDict ==
    /\ ordering.pc = "request"
    /\ ordering' = [ordering EXCEPT
                       !.pc = "returned",
                       !.result = get_cosponsors_dict(ordering.cosponsors_dict,
                                                      ordering.sponsor, ordering.db)]
    /\ UNCHANGED <<aggVars, norm, walker, resolver, roster, extractor, render>>

NextOrdering == GetCosponsorsDict

SpecOrdering == InitOrdering /\ [][NextOrdering]_vars

(***************************************************************************)
(* C8, C9                                                                  *)
(***************************************************************************)
\* the entry is the sponsor's: the sponsor record itself, or the cosponsor
\* entry that has the sponsor's name
IsSponsorEntry(e, sponsor) ==
    /\ e.name = sponsor.name
    /\ e.bioguide_id = sponsor.bioguide_id

OrderClass(e) ==
    IF Get(e, "original_cosponsor", FALSE)
    THEN (IF HasIntRank(e) THEN 0 ELSE 1)
    ELSE (IF HasIntRank(e) THEN 2 ELSE 3)

\* what a result entry was in the input: a cosponsor's name and originality
AsGiven(e) == <<e.name, Get(e, "original_cosponsor", FALSE)>>

\* C9: after the head come the original cosponsors with an int rank in
\* ascending rank, the original ones without, the others with an int rank in
\* ascending rank, the others without; equal ranks and the unranked keep the
\* order they had (name order); every cosponsor given is in the result once.
C9_PartitionOrder ==
    ordering.pc = "returned" =>
        LET res == ordering.result
            cs == ordering.cosponsors_dict
            \* the result without a sponsor record that was inserted
            fromInput == SelectSeq(res, LAMBDA e : "sponsor" \notin DOMAIN e)
        IN  /\ \A i, j \in 2..Len(res) :
                  i < j =>
                    /\ OrderClass(res[i]) <= OrderClass(res[j])
                    /\ (OrderClass(res[i]) = OrderClass(res[j]) /\ HasIntRank(res[i]))
                          => RankOf(res[i]) <= RankOf(res[j])
                    /\ (/\ OrderClass(res[i]) = OrderClass(res[j])
                        /\ Get(res[i], "rank", <<>>) = Get(res[j], "rank", <<>>))
                          => NameRank(res[i].name) <= NameRank(res[j].name)
            /\ Len(fromInput) = Len(cs)
            /\ \A g \in {AsGiven(cs[i]) : i \in 1..Len(cs)} :
                  Cardinality({i \in 1..Len(fromInput) : AsGiven(fromInput[i]) = g})
                      = Cardinality({i \in 1..Len(cs) : AsGiven(cs[i]) = g})

\* after the head: an original cosponsor ranked 1, then one not original and
\* unranked, given in the other order
C9_Witness ==
    /\ ordering.pc = "returned"
    /\ ordering.sponsor.name = "Clark"
    /\ Len(ordering.cosponsors_dict) = 3
    /\ ~ordering.cosponsors_dict[1].original_cosponsor
    /\ Len(ordering.result) = 4
    /\ OrderClass(ordering.result[2]) = 0
    /\ OrderClass(ordering.result[3]) = 2
    /\ OrderClass(ordering.result[4]) = 3
    /\ ordering.result[2].name = "Baker"
    /\ ordering.result[3].name = "Adams"

(***************************************************************************)
(* C14                                                                     *)
(***************************************************************************)
\* the fields the loop adds from the Cosponsor table
EnrichmentFields == {"party", "name_full_official", "committee_id", "committee_name"}

\* the entries the loop runs over, as they were before it: the cosponsors, and
\* the sponsor record when it was inserted
LoopInputs ==
    {ordering.cosponsors_dict[i] : i \in 1..Len(ordering.cosponsors_dict)}
        \cup {[sponsor |-> TRUE] @@ ordering.sponsor}

\* C14: the call returns whatever the lookups do; an entry whose lookup failed
\* is in the result as it was given, with current = False added and nothing
\* else; an entry whose lookup succeeded has current = True, also when it
\* comes after one whose lookup failed.
C14_LookupFailureContained ==
    ordering.pc \notin {"off", "request"} =>
        LET res == ordering.result
            cs == ordering.cosponsors_dict
            failed(e) == e.bioguide_id # "" /\ ~ordering.db[e.bioguide_id].found
        IN  /\ ordering.pc = "returned"
            /\ \A j \in 1..Len(res) :
                  LET e == res[j]
                  IN  IF e.bioguide_id = "" THEN "current" \notin DOMAIN e
                      ELSE IF failed(e)
                      THEN /\ "current" \in DOMAIN e
                           /\ e.current = FALSE
                           /\ DOMAIN e \cap EnrichmentFields = {}
                           /\ \E given \in LoopInputs : e = [current |-> FALSE] @@ given
                      ELSE /\ "current" \in DOMAIN e
                           /\ e.current = TRUE
                           /\ {"party", "name_full_official"} \subseteq DOMAIN e
            /\ \A i \in 1..Len(cs) :
                  failed(cs[i]) => \E j \in 1..Len(res) : res[j] = [current |-> FALSE] @@ cs[i]

\* the sponsor's lookup failed and the cosponsor's after it succeeded: the
\* sponsor leads the result marked not current, the cosponsor is enriched
C14_Witness ==
    /\ ordering.pc = "returned"
    /\ ordering.sponsor.name = "Clark"
    /\ ~ordering.db["C000003"].found
    /\ Len(ordering.result) = 2
    /\ ordering.result[1] =
          [name |-> "Clark", bioguide_id |-> "C000003", sponsor |-> TRUE, current |-> FALSE]
    /\ ordering.result[2].name = "Adams"
    /\ ordering.result[2].current = TRUE
    /\ ordering.result[2].committee_name = "House Judiciary"

(***************************************************************************)
(* The normalizers on enumerated inputs                                    *)
(***************************************************************************)
NormAlphabet == {"h", "r", "1", "6", "-"}
\* every string of at most MaxIdLen characters, and the documented example
NormInputs ==
    SeqsUpTo(NormAlphabet, MaxIdLen) \cup {<<"h", "r", "2", "9", "9", "-", "1", "1", "6">>}

InitNorm ==
    /\ AggOff
    /\ ExtractorOff
    /\ RenderOff
    /\ WalkerOff
    /\ ResolverOff
    /\ RosterOff
    /\ OrderingOff
    /\ norm \in {[pc |-> "input", bill_id |-> s, script |-> [kind |-> "pending"],
                  view |-> <<>>] : s \in NormInputs}

\* both normalizers applied to the same bill_id
Normalize ==
    /\ norm.pc = "input"
    /\ norm' = [norm EXCEPT !.pc = "done",
                            !.script = getBillCongressTypeNumber([bill_id |-> norm.bill_id]),
                            !.view = billIdToBillNumber(norm.bill_id)]
    /\ UNCHANGED <<aggVars, walker, resolver, roster, ordering, extractor, render>>

NextNorm == Normalize

SpecNorm == InitNorm /\ [][NextNorm]_vars

(***************************************************************************)
(* C10                                                                     *)
(***************************************************************************)
\* C10: for every valid bill_id <type><number>-<congress>, both normalizers
\* return <congress><type><number>, and so they agree.
C10_NormalizersAgree ==
    (norm.pc = "done" /\ IsValidBillId(norm.bill_id)) =>
        /\ norm.script = [kind |-> "ok", value |-> ExpectedBillKey(norm.bill_id)]
        /\ norm.view = ExpectedBillKey(norm.bill_id)

\* 'hr299-116' has been normalized to '116hr299' by both
C10_Witness ==
    /\ norm.pc = "done"
    /\ norm.bill_id = <<"h", "r", "2", "9", "9", "-", "1", "1", "6">>
    /\ norm.script = [kind |-> "ok", value |-> <<"1", "1", "6", "h", "r", "2", "9", "9">>]
    /\ norm.view = <<"1", "1", "6", "h", "r", "2", "9", "9">>

(***************************************************************************)
(* Title extraction on enumerated records                                  *)
(***************************************************************************)
\* a title of data.json: is_for_portion and as may be absent
TitleDicts ==
    {[title |-> t] @@ p @@ a :
        t \in {"An Act", "Title II"},
        p \in {<<>>, [is_for_portion |-> TRUE], [is_for_portion |-> FALSE]},
        a \in {<<>>, [as |-> "introduced"], [as |-> "reported to house"]}}

\* the billType arguments: the default, the two of BILL_TYPES, one that is not
BillTypeArgs == {"all", "ih", "rh", "eh"}

InitExtract ==
    /\ AggOff
    /\ NormOff
    /\ WalkerOff
    /\ ResolverOff
    /\ RosterOff
    /\ OrderingOff
    /\ RenderOff
    /\ extractor \in {[pc |-> "call", fileDict |-> [titles |-> ts], include_partial |-> ip,
                       billType |-> bt, result |-> <<>>] :
                         ts \in SeqsUpTo(TitleDicts, MaxTitles),
                         ip \in BOOLEAN, bt \in BillTypeArgs}

\* one call getBillTitles(fileDict, include_partial, billType)
GetBillTitles ==
    /\ extractor.pc = "call"
    /\ extractor' = [extractor EXCEPT
                        !.pc = "returned",
                        !.result = getBillTitles(extractor.fileDict,
                                                 extractor.include_partial,
                                                 extractor.billType)]
    /\ UNCHANGED <<aggVars, norm, walker, resolver, roster, ordering, render>>

NextExtract == GetBillTitles

SpecExtract == InitExtract /\ [][NextExtract]_vars

(***************************************************************************)
(* C11                                                                     *)
(***************************************************************************)
\* the stage label of a recognized billType
StageLabel(billType) ==
    CASE billType = "ih" -> "introduced"
      [] billType = "rh" -> "reported to house"

\* the elements of seq at the indices of K, in ascending index order
Pick(seq, K) ==
    LET idx == SelectSeq([i \in 1..Len(seq) |-> i], LAMBDA i : i \in K)
    IN  [n \in 1..Len(idx) |-> seq[idx[n]]]

\* C11: without include_partial no returned title is for a portion; with 'ih'
\* or 'rh' only titles whose 'as' is the mapped label are returned, with any
\* other billType no title is dropped for its stage; the result is the
\* record's titles that pass, in source order.
C11_TitlesFiltered ==
    extractor.pc = "returned" =>
        LET titles == extractor.fileDict.titles
            res == extractor.result
            partial(t) == "is_for_portion" \in DOMAIN t /\ t.is_for_portion
            staged == extractor.billType \in {"ih", "rh"}
            passes(t) ==
                /\ extractor.include_partial \/ ~partial(t)
                /\ staged => ("as" \in DOMAIN t /\ t.as = StageLabel(extractor.billType))
        IN  /\ res = Pick(titles, {i \in 1..Len(titles) : passes(titles[i])})
            /\ ~extractor.include_partial => \A i \in 1..Len(res) : ~partial(res[i])
            /\ staged => \A i \in 1..Len(res) : res[i].as = StageLabel(extractor.billType)

\* include_partial=False, billType='ih': of a portion title and a whole-bill
\* title, both introduced, the whole-bill one alone is returned
C11_Witness ==
    /\ extractor.pc = "returned"
    /\ ~extractor.include_partial
    /\ extractor.billType = "ih"
    /\ extractor.fileDict.titles =
          << [title |-> "Title II", is_for_portion |-> TRUE, as |-> "introduced"],
             [title |-> "An Act", is_for_portion |-> FALSE, as |-> "introduced"] >>
    /\ extractor.result =
          << [title |-> "An Act", is_for_portion |-> FALSE, as |-> "introduced"] >>

(***************************************************************************)
(* Renders of the detail view                                              *)
(*                                                                         *)
(* Every request is served by a view instance of its own; the instances    *)
(* share the attributes of the class BillDetailView.  Two requests, for    *)
(* two bills, run get_context_data in any interleaving.                    *)
(***************************************************************************)
ViewInstances == {"view1", "view2"}

\* self.object.bill_congress_type_number of each instance
BillOfView(v) == IF v = "view1" THEN "116hr299" ELSE "116hr300"

\* the matches a bill's similarity list is made of
RenderMatches ==
    { [bill_congress_type_number |-> "116hr299", score |-> 90, reason |-> <<"similar text">>],
      [bill_congress_type_number |-> "116hr300", score |-> 95, reason |-> <<"similar text">>],
      [bill_congress_type_number |-> "115hr7", score |-> 50, reason |-> <<"identical">>] }

\* views.py:158-171: the calls of get_context_data that assign or read
\* self.identical_bill_numbers, in the order they are made
ContextCalls ==
    << "get_identical_bill_numbers", "get_related_statements", "get_related_committees",
       "get_crs_reports", "get_related_cbo", "get_cosponsors_for_same_bills" >>

\* the assignment made on the class instead of the instance
StoreOnClass(r, v, value) == [r EXCEPT !.cls = value]

\* views.py:377: self.identical_bill_numbers = identical_bill_numbers binds the
\* attribute in the instance's own dict
StoreOnInstance(r, v, value) ==
    [r EXCEPT !.views[v].attrs = [identical_bill_numbers |-> value]]

\* self.identical_bill_numbers (views.py:182, 192, 201, 241, 384): the
\* instance's attribute if it has one, else the class attribute (views.py:124)
Lookup(r, v) ==
    IF "identical_bill_numbers" \in DOMAIN r.views[v].attrs
    THEN [value |-> r.views[v].attrs.identical_bill_numbers, source |-> "instance"]
    ELSE [value |-> r.cls, source |-> "class"]

InitRender ==
    /\ AggOff
    /\ NormOff
    /\ WalkerOff
    /\ ResolverOff
    /\ RosterOff
    /\ OrderingOff
    /\ ExtractorOff
    /\ render \in {[cls |-> <<>>,
                    views |-> [v \in ViewInstances |->
                                 [object |-> [bill_congress_type_number |-> BillOfView(v),
                                              get_similar_bills |-> sim[v]],
                                  pc |-> 1, attrs |-> <<>>,
                                  returned |-> [kind |-> "pending"], reads |-> <<>>]]] :
                      sim \in [ViewInstances -> SeqsUpTo(RenderMatches, MaxMatches)]}

\* views.py:158: get_identical_bill_numbers computes the list, assigns it to
\* self.identical_bill_numbers and returns it; an exception leaves get_context_data
ComputeIdentical(v) ==
    /\ render.views[v].pc = 1
    /\ LET object == render.views[v].object
           res == get_identical_bill_numbers_for(object.bill_congress_type_number,
                                                 object.get_similar_bills)
       IN  render' =
              IF res.kind = "ok"
              THEN [StoreOnInstance(render, v, res.value) EXCEPT
                       !.views[v].pc = 2, !.views[v].returned = res]
              ELSE [render EXCEPT !.views[v].pc = 0, !.views[v].returned = res]
    /\ UNCHANGED <<aggVars, norm, walker, resolver, roster, ordering, extractor>>

\* views.py:163-166, 171: the next consumer reads self.identical_bill_numbers
ReadIdentical(v) ==
    /\ render.views[v].pc \in 2..Len(ContextCalls)
    /\ render' = [render EXCEPT
                     !.views[v].reads =
                         (ContextCalls[render.views[v].pc] :> Lookup(render, v)) @@ @,
                     !.views[v].pc = @ + 1]
    /\ UNCHANGED <<aggVars, norm, walker, resolver, roster, ordering, extractor>>

NextRender ==
    \/ \E v \in ViewInstances : ComputeIdentical(v)
    \/ \E v \in ViewInstances : ReadIdentical(v)

SpecRender == InitRender /\ [][NextRender]_vars

(***************************************************************************)
(* C13                                                                     *)
(***************************************************************************)
\* the five consumers of the identical set
Consumers == {ContextCalls[i] : i \in 2..Len(ContextCalls)}

\* C13: in a render every consumer reads the attribute of its own instance,
\* assigned before the first of them runs, and what it reads is the list
\* get_identical_bill_numbers computed for this request's bill; the class
\* attribute stays the empty list.
C13_InstanceCache ==
    /\ render.cls = <<>>
    /\ \A v \in DOMAIN render.views :
          LET view == render.views[v]
              own == get_identical_bill_numbers_for(view.object.bill_congress_type_number,
                                                    view.object.get_similar_bills)
          IN  /\ view.pc >= 2 =>
                    /\ "identical_bill_numbers" \in DOMAIN view.attrs
                    /\ view.attrs.identical_bill_numbers = own.value
                    /\ view.returned = own
              /\ DOMAIN view.reads = {ContextCalls[i] : i \in 2..(view.pc - 1)}
              /\ \A c \in DOMAIN view.reads :
                    view.reads[c] = [value |-> own.value, source |-> "instance"]

\* the render of 116hr299 is over, its five consumers having read its two
\* identical bills, while the render of 116hr300 holds another set
C13_Witness ==
    /\ render.views # <<>>
    /\ render.views["view1"].pc = Len(ContextCalls) + 1
    /\ DOMAIN render.views["view1"].reads = Consumers
    /\ \A c \in Consumers :
          render.views["view1"].reads[c].value = <<"116hr299", "116hr300">>
    /\ render.views["view2"].pc = 3
    /\ render.views["view2"].attrs = [identical_bill_numbers |-> <<"115hr7">>]

====
